---- MODULE Spec2Model ----
(***************************************************************************)
(* The generation lifecycle controller of sora-stream: the React hook      *)
(* useVideoGeneration (src/unnamed/part_000) over the transport functions  *)
(* of src/src/services/soraApi.ts and the error mapping of                 *)
(* src/unnamed/part_003.                                                   *)
(*                                                                         *)
(* The hook runs on the browser's event loop.  One action of this module   *)
(* is one task of that loop: a call of one of the hook's commands up to    *)
(* its first network await, the delivery of one network response together  *)
(* with the continuation it resumes, or the firing of one timer.           *)
(*                                                                         *)
(* The remote system gives every accepted creation request a fresh         *)
(* identifier; the n-th accepted submit is given the identifier n.  A poll *)
(* loop is the closure `poll` of one call of pollVideoStatus(videoId); it  *)
(* is sequential, so at any time it owns at most one pending timer, one    *)
(* status request or one content request, and it creates at most one       *)
(* object URL.  Timers and object URLs are therefore named by the          *)
(* identifier of the loop that created them.                               *)
(***************************************************************************)
EXTENDS Integers, Sequences, FiniteSets, TLC

\* Bounds of the model.
MaxSubmits == 2      \* accepted submits (generations) in one behaviour
MaxDownloads == 1    \* downloads in progress at the same time
MaxTicks == 3        \* status requests of the generation of an observed run

\* null of id, videoUrl, pollingTimeoutRef.current, currentVideoUrlRef.current
Null == 0

Gens == 1..MaxSubmits

\* ---------------------------------------------------------------- values

\* apiKey: null (nothing stored), or a string; the empty string is falsy too.
\* The settings dialog saves trimmed, non-empty keys only (part_004:28-33);
\* saveApiKey itself takes any string.
NoKey == "null"
DialogKeys == {"sk-key"}
ApiKeys == DialogKeys \cup {""}
Truthy(key) == key # NoKey /\ key # ""

DefaultOptions == [size |-> "1280x720", seconds |-> "4", model |-> "sora-2"]
OptionValues == {DefaultOptions,
                 [size |-> "720x1280", seconds |-> "8", model |-> "sora-2-pro"]}

Prompts == {"a red ball bouncing"}

\* A reference image is a data URL, modelled as a sequence of characters
\* with the scheme and media type "data:image/png;base64" as the one
\* character "H".  "A" stands for a character of the base64 alphabet, "!"
\* for one outside of it.  null (and the empty string) is the empty sequence.
NoImage == <<>>
GoodImage == <<"H", ",", "A", "A", "A", "A">>
PaddedImage == <<"H", ",", "A", "A", "=", "=">>
NoCommaImage == <<"H">>
BadCharImage == <<"H", ",", "A", "!", "A", "A">>
\* what the upload widget hands to setReferenceImage, and what a caller may
\* hand to generateVideo
WidgetImages == {NoImage, GoodImage}
Images == {NoImage, GoodImage, NoCommaImage}

\* status strings the remote system may report ("processing" stands for any
\* string outside the four the hook knows)
RemoteStatuses == {"queued", "in_progress", "completed", "failed", "processing"}

\* error?.message of a response body: absent (or the body does not parse),
\* or a text of the remote system
NoMessage == "undefined"
RemoteMessage == "remote error message"
OrgMessage == "Your organization must be verified to use the model"

\* ---------------------------------------------------------------- state

VARIABLES
  apiKey,               \* useState apiKey
  video,                \* useState video (VideoState)
  pollingTimeoutRef,    \* .current: Null or the timer of a poll loop
  currentVideoUrlRef,   \* .current: Null or an object URL
  phase,                \* per generation: where its submit / poll loop stands
  submits,              \* accepted submits so far (the remote's id counter)
  blobUrls,             \* artifact object URLs created and not revoked
  dlFetching,           \* downloadVideo calls awaiting fetch(video.videoUrl)
  dlTemp,               \* download object URLs awaiting their 100 ms revoke
  toasts,               \* notifications emitted by the last task
  transport,            \* observed run: the calls made of getVideoStatus and
                        \* getVideoContent and what they returned
  call,                 \* the last call of a helper function: its name,
                        \* arguments and outcome
  page,                 \* the page around the hook: the upload widget's
                        \* state and the creation request last sent
  mounted               \* the component that uses the hook is mounted

vars == <<apiKey, video, pollingTimeoutRef, currentVideoUrlRef, phase,
          submits, blobUrls, dlFetching, dlTemp, toasts, transport, call,
          page, mounted>>

\* what a specification that does not look at them leaves alone
hookOnly == <<transport, call, page, mounted>>
hookState == <<apiKey, video, pollingTimeoutRef, currentVideoUrlRef, phase,
               submits, blobUrls, dlFetching, dlTemp, toasts, transport, page,
               mounted>>

Error(text) == [level |-> "error", text |-> text]
Success(text) == [level |-> "success", text |-> text]

\* ------------------------------------------------- message texts (ASCII)

MsgNoKey == "API key is not set"                          \* part_000:133
MsgStarted == "video generation started"                  \* part_000:164
MsgCompleted == "video generation completed"              \* part_000:225
MsgContentPrefix == "failed to get the video: "           \* part_000:229
MsgFailedPrefix == "video generation failed: "            \* part_000:240
MsgStatusPrefix == "status check error: "                 \* part_000:253
MsgNoVideo == "no video to download"                      \* part_000:284
MsgDownloadStarted == "video download started"            \* part_000:319
MsgDownloadPrefix == "download failed: "                  \* part_000:323
MsgGenerateDefault == "video generation failed"           \* part_000:238
MsgStatusDefault == "status check failed"                 \* soraApi.ts:187
MsgRequestDefault == "video generation request failed"    \* part_003:22
MsgBilling == "billing hard limit reached"                \* part_003:28
MsgOrgVerify == "organization verification required"      \* part_003:31
MsgDenied == "access denied: "                            \* part_003:33
MsgInvalidKey == "API key is invalid"                     \* part_003:36
MsgRateLimit == "rate limit reached"                      \* part_003:38
MsgBadRequest == "bad request: "                          \* part_003:40
MsgServer == "server error: "                             \* part_003:42
MsgParse == "response parse error "                       \* soraApi.ts:145
MsgContentStatus == "video content fetch failed: "        \* soraApi.ts:226
MsgImagePrefix == "image conversion error: "              \* part_003:51
MsgEmptyBase64 == "Base64 data is empty"                  \* part_003:65
MsgBadBase64 == "invalid Base64 format"                   \* part_003:71
MsgAtob == "The string to be decoded is not correctly encoded"
MsgFetch == "Failed to fetch"           \* the TypeError of a rejected fetch
MsgJson == "Unexpected token in JSON"   \* the SyntaxError of response.json()
MsgUndefinedSplit == "Cannot read properties of undefined"

\* ------------------------------------------------------ errorHandler.ts

\* new VideoGenerationError(message, code, status)
VideoGenerationError(message, code, status) ==
  [name |-> "VideoGenerationError", message |-> message,
   code |-> code, status |-> status]

\* new Error(message)
PlainError(message) ==
  [name |-> "Error", message |-> message, code |-> "", status |-> Null]

\* handleApiError(response, error): the error thrown for a non-2xx JSON
\* response with status `status`, error.code || error.type `code` and
\* error.message `message`
handleApiError(status, code, message) ==
  LET errorCode == IF code = NoMessage THEN "unknown" ELSE code
      errorMessage == IF message = NoMessage THEN MsgRequestDefault ELSE message
      detailedMessage ==
        IF errorCode = "billing_hard_limit_reached" THEN <<MsgBilling>>
        ELSE IF status = 403
          THEN IF errorMessage = OrgMessage
                 THEN <<MsgOrgVerify>>
                 ELSE <<MsgDenied, errorMessage>>
        ELSE IF status = 401 THEN <<MsgInvalidKey>>
        ELSE IF status = 429 THEN <<MsgRateLimit>>
        ELSE IF status = 400 THEN <<MsgBadRequest, errorMessage>>
        ELSE IF status >= 500 THEN <<MsgServer, errorMessage>>
        ELSE <<errorMessage>>
  IN VideoGenerationError(detailedMessage, errorCode, status)

\* handleImageConversionError(error)
handleImageConversionError(error) ==
  VideoGenerationError(<<MsgImagePrefix>> \o error.message,
                       "image_conversion_failed", Null)

\* base64Pattern.test(base64Data): /^[A-Za-z0-9+/]+=*$/
RECURSIVE AllIn(_, _)
AllIn(s, chars) ==
  IF s = <<>> THEN TRUE ELSE Head(s) \in chars /\ AllIn(Tail(s), chars)

RECURSIVE StripTrailing(_, _)
StripTrailing(s, c) ==
  IF s # <<>> /\ s[Len(s)] = c THEN StripTrailing(SubSeq(s, 1, Len(s) - 1), c)
  ELSE s

base64Pattern(s) ==
  LET body == StripTrailing(s, "=")
  IN body # <<>> /\ AllIn(body, {"A"})

\* base64Data.trim()
RECURSIVE TrimLeft(_)
TrimLeft(s) == IF s # <<>> /\ Head(s) = " " THEN TrimLeft(Tail(s)) ELSE s
Trim(s) == StripTrailing(TrimLeft(s), " ")

\* validateBase64Image(base64Data): <<>> when it returns, else the error
\* it throws in a one-element sequence.  `undefined` is << "undefined" >>.
Undefined == <<"undefined">>
validateBase64Image(base64Data) ==
  IF base64Data = Undefined \/ base64Data = <<>> \/ Trim(base64Data) = <<>>
    THEN <<VideoGenerationError(<<MsgEmptyBase64>>, "empty_base64", Null)>>
  ELSE IF ~base64Pattern(base64Data)
    THEN <<VideoGenerationError(<<MsgBadBase64>>, "invalid_base64_format", Null)>>
  ELSE <<>>

\* ------------------------------------------------------------ soraApi.ts

\* base64String.split(',')[1]: the characters between the first and the
\* second comma, Undefined when there is no comma
RECURSIVE UpToComma(_)
UpToComma(s) ==
  IF s = <<>> \/ Head(s) = "," THEN <<>> ELSE <<Head(s)>> \o UpToComma(Tail(s))

SplitSecond(s) ==
  LET first == UpToComma(s)
  IN IF Len(first) = Len(s) THEN Undefined
     ELSE UpToComma(SubSeq(s, Len(first) + 2, Len(s)))

\* atob(base64Data) returns (TRUE) or throws (FALSE): the forgiving-base64
\* decode, on data that holds no whitespace
AtobOk(data) ==
  LET n == Len(data)
      pad == n - Len(StripTrailing(data, "="))
      cut == IF n % 4 = 0 THEN (IF pad > 2 THEN 2 ELSE pad) ELSE 0
      rest == SubSeq(data, 1, n - cut)
  IN Len(rest) % 4 # 1 /\ AllIn(rest, {"A"})

\* base64ToFile(base64String): <<>> when a File is returned, else the
\* error thrown, in a one-element sequence
base64ToFile(base64String) ==
  LET base64Data == SplitSecond(base64String)
      invalid == validateBase64Image(base64Data)
  IN IF invalid # <<>> THEN <<handleImageConversionError(invalid[1])>>
     ELSE IF ~AtobOk(base64Data)
       THEN <<handleImageConversionError(PlainError(<<MsgAtob>>))>>
     ELSE <<>>

\* buildFormData(prompt, options, referenceImage): the form's field names
\* and the error thrown, if any
\* buildFormData that appends the payload without converting it
buildFormDataUnconverted(prompt, options, referenceImage) ==
  LET basic == {"model", "prompt", "size", "seconds"}
  IN IF referenceImage # NoImage /\ Trim(referenceImage) # <<>>
       THEN [fields |-> basic \cup {"input_reference"}, error |-> <<>>]
       ELSE [fields |-> basic, error |-> <<>>]

buildFormData(prompt, options, referenceImage) ==
  LET basic == {"model", "prompt", "size", "seconds"}
  IN IF referenceImage # NoImage /\ Trim(referenceImage) # <<>>
       THEN [fields |-> basic \cup {"input_reference"},
             error |-> base64ToFile(referenceImage)]
       ELSE [fields |-> basic, error |-> <<>>]

\* What the remote system (or the network) answers to POST /videos.
\*   net:  FALSE when fetch itself rejects
\*   json: the content type is application/json and the body parses
CreateResponses ==
  {[net |-> FALSE, status |-> Null, json |-> FALSE, code |-> NoMessage,
    message |-> NoMessage],
   [net |-> TRUE, status |-> 502, json |-> FALSE, code |-> NoMessage,
    message |-> NoMessage],
   [net |-> TRUE, status |-> 200, json |-> TRUE, code |-> NoMessage,
    message |-> NoMessage],
   [net |-> TRUE, status |-> 401, json |-> TRUE, code |-> "invalid_api_key",
    message |-> RemoteMessage]}

ResponseOk(status) == status >= 200 /\ status <= 299

\* soraApi.generateVideo after its fetch has settled with response r:
\* <<>> when it returns the video data, else the error it throws
generateVideoResult(r) ==
  IF ~r.net THEN <<PlainError(<<MsgFetch>>)>>
  ELSE IF ~r.json THEN <<PlainError(<<MsgParse, ToString(r.status)>>)>>
  ELSE IF ~ResponseOk(r.status)
    THEN <<handleApiError(r.status, r.code, r.message)>>
  ELSE <<>>

\* What is answered to GET /videos/{id}.
\*   body: the parsed body of a 2xx response
StatusBodies ==
  {[status |-> "queued", progress |-> <<>>, error |-> NoMessage],
   [status |-> "in_progress", progress |-> <<40>>, error |-> NoMessage],
   [status |-> "processing", progress |-> <<>>, error |-> NoMessage],
   [status |-> "completed", progress |-> <<40>>, error |-> NoMessage],
   [status |-> "failed", progress |-> <<>>, error |-> NoMessage],
   [status |-> "failed", progress |-> <<>>, error |-> RemoteMessage]}

StatusResponses ==
  {[net |-> FALSE, status |-> Null, json |-> FALSE, message |-> NoMessage,
    body |-> <<>>],
   [net |-> TRUE, status |-> 401, json |-> FALSE, message |-> NoMessage,
    body |-> <<>>],
   [net |-> TRUE, status |-> 401, json |-> TRUE, message |-> RemoteMessage,
    body |-> <<>>],
   [net |-> TRUE, status |-> 500, json |-> TRUE, message |-> RemoteMessage,
    body |-> <<>>],
   [net |-> TRUE, status |-> 200, json |-> FALSE, message |-> NoMessage,
    body |-> <<>>]}
  \cup {[net |-> TRUE, status |-> 200, json |-> TRUE, message |-> NoMessage,
         body |-> <<b>>] : b \in StatusBodies}

\* getVideoStatus that returns whatever body reads like a report, whatever
\* the status code
getVideoStatusAnyCode(r) ==
  IF ~r.net THEN <<PlainError(<<MsgFetch>>)>>
  ELSE IF ~ResponseOk(r.status) /\ r.body = <<>>
    THEN <<PlainError(<<IF r.message = NoMessage THEN MsgStatusDefault
                        ELSE r.message>>)>>
  ELSE IF ~r.json THEN <<PlainError(<<MsgJson>>)>>
  ELSE <<>>

\* getVideoStatus after its fetch has settled with response r: <<>> when
\* it returns r's body, else the error it throws
getVideoStatusResult(r) ==
  IF ~r.net THEN <<PlainError(<<MsgFetch>>)>>
  ELSE IF ~ResponseOk(r.status)
    THEN <<PlainError(<<IF r.message = NoMessage THEN MsgStatusDefault
                        ELSE r.message>>)>>
  ELSE IF ~r.json THEN <<PlainError(<<MsgJson>>)>>
  ELSE <<>>

\* What is answered to GET /videos/{id}/content.
ContentResponses ==
  {[net |-> FALSE, status |-> Null], [net |-> TRUE, status |-> 200],
   [net |-> TRUE, status |-> 404]}

\* getVideoContent after its fetch has settled with response r
getVideoContentResult(r) ==
  IF ~r.net THEN <<PlainError(<<MsgFetch>>)>>
  ELSE IF ~ResponseOk(r.status)
    THEN <<PlainError(<<MsgContentStatus, ToString(r.status)>>)>>
  ELSE <<>>

\* progress taken as 0 whatever was reported
OrZeroAlways(progress) == 0

\* data.progress || 0
OrZero(progress) == IF progress = <<>> THEN 0 ELSE progress[1]

\* ------------------------------------------------- useVideoGeneration

Phases == {"unused", "create", "status", "timer", "content", "done"}

\* no call of the transport made yet
NoTraffic ==
  [createCalls |-> 0, statusCalls |-> 0, contentCalls |-> 0, failed |-> {},
   reports |-> <<>>, content |-> "none"]

\* no helper called yet
NoCall == [fn |-> "none"]

\* The page before its first render: the upload widget not rendered yet
\* (widget 0), its useState and useRef initial values (currentSize =
\* targetSize, no file kept, no resize running), the held image encoded
\* for no size, and no creation request sent yet
NoResize == [for |-> "none", by |-> "none"]
InitialPage ==
  [widget |-> 0, currentSize |-> DefaultOptions.size, lastFile |-> FALSE,
   needsResize |-> FALSE, resizing |-> NoResize, encodedFor |-> "none",
   sent |-> <<>>]

InitialVideo ==
  [id |-> Null, status |-> "idle", progress |-> 0, videoUrl |-> Null,
   prompt |-> "", options |-> DefaultOptions, referenceImage |-> NoImage]

Init ==
  /\ apiKey \in {NoKey, "sk-key"}      \* localStorage.getItem at first render
  /\ video = InitialVideo
  /\ pollingTimeoutRef = Null
  /\ currentVideoUrlRef = Null
  /\ phase = [g \in Gens |-> "unused"]
  /\ submits = 0
  /\ blobUrls = {}
  /\ dlFetching = 0
  /\ dlTemp = 0
  /\ toasts = <<>>
  /\ transport = NoTraffic
  /\ call = NoCall
  /\ page = InitialPage
  /\ mounted = TRUE

\* clearTimeout(timer) on the timers `ph`: a pending timer is dropped, the
\* id of a timer that has fired already is ignored
clearTimeout(ph, timer) ==
  IF timer # Null /\ ph[timer] = "timer" THEN [ph EXCEPT ![timer] = "done"]
  ELSE ph

\* cleanupResources, lines 103-107: the timers left pending
cleanupTimers == clearTimeout(phase, pollingTimeoutRef)

\* cleanupResources, lines 110-114: the object URLs left alive (every URL
\* of URL.createObjectURL starts with "blob:")
cleanupUrls ==
  IF currentVideoUrlRef # Null THEN blobUrls \ {currentVideoUrlRef}
  ELSE blobUrls

\* saveApiKey(key); localStorage.setItem may throw
saveApiKey(key) ==
  /\ \E stored \in BOOLEAN :
       IF stored
         THEN apiKey' = key /\ toasts' = <<Success(<<"API key saved">>)>>
         ELSE apiKey' = apiKey
              /\ toasts' = <<Error(<<"failed to save the API key">>)>>
  /\ UNCHANGED <<video, pollingTimeoutRef, currentVideoUrlRef, phase, submits,
                 blobUrls, dlFetching, dlTemp>>

setReferenceImage(imageData) ==
  /\ video' = [video EXCEPT !.referenceImage = imageData]
  /\ toasts' = <<>>
  /\ UNCHANGED <<apiKey, pollingTimeoutRef, currentVideoUrlRef, phase, submits,
                 blobUrls, dlFetching, dlTemp>>

\* updateOptions that starts the state over with the new options
updateOptionsRestart(options) ==
  /\ video' = [InitialVideo EXCEPT !.options = options]
  /\ toasts' = <<>>
  /\ UNCHANGED <<apiKey, pollingTimeoutRef, currentVideoUrlRef, phase, submits,
                 blobUrls, dlFetching, dlTemp>>

updateOptions(options) ==
  /\ video' = [video EXCEPT !.options = options]
  /\ toasts' = <<>>
  /\ UNCHANGED <<apiKey, pollingTimeoutRef, currentVideoUrlRef, phase, submits,
                 blobUrls, dlFetching, dlTemp>>

\* generateVideo, lines 132-136: no API key
rejectNoKey ==
  /\ toasts' = <<Error(<<MsgNoKey>>)>>
  /\ UNCHANGED <<apiKey, video, pollingTimeoutRef, currentVideoUrlRef, phase,
                 submits, blobUrls, dlFetching, dlTemp>>

\* generateVideo, lines 138-184 up to the await of line 156.  The call of
\* soraApi.generateVideo builds the form before its first await, so an
\* image that fails to convert rejects the call with no request sent, and
\* the catch of lines 168-184 runs before any other task.
startGeneration(prompt, options, referenceImage) ==
  LET g == submits + 1
      form == buildFormData(prompt, options, referenceImage)
      queued == [id |-> Null, status |-> "queued", progress |-> 0,
                 videoUrl |-> Null, prompt |-> prompt, options |-> options,
                 referenceImage |-> referenceImage]
  IN /\ submits < MaxSubmits
     /\ submits' = g
     /\ pollingTimeoutRef' = Null
     /\ currentVideoUrlRef' = Null
     /\ blobUrls' = cleanupUrls
     /\ IF form.error = <<>>
          THEN /\ video' = queued
               /\ phase' = [cleanupTimers EXCEPT ![g] = "create"]
               /\ toasts' = <<>>
          ELSE /\ video' = [queued EXCEPT !.status = "failed"]
               /\ phase' = [cleanupTimers EXCEPT ![g] = "done"]
               /\ toasts' = <<Error(form.error[1].message)>>
     /\ UNCHANGED <<apiKey, dlFetching, dlTemp>>

\* generateVideo without the check of lines 132-136
generateVideoUnchecked(prompt, options, referenceImage) ==
  startGeneration(prompt, options, referenceImage)

generateVideo(prompt, options, referenceImage) ==
  IF ~Truthy(apiKey) THEN rejectNoKey
  ELSE startGeneration(prompt, options, referenceImage)

\* generateVideo resumed at line 156 with the settled POST of generation g
createSettles(g, r) ==
  LET thrown == generateVideoResult(r)
  IN /\ phase[g] = "create"
     /\ IF thrown = <<>>
          THEN /\ video' = [video EXCEPT !.id = g, !.status = "queued"]
               /\ toasts' = <<Success(<<MsgStarted>>)>>
               /\ phase' = [phase EXCEPT ![g] = "status"]   \* poll()
          ELSE /\ video' = [video EXCEPT !.status = "failed"]
               /\ toasts' = <<Error(thrown[1].message)>>
               /\ phase' = [phase EXCEPT ![g] = "done"]
     /\ UNCHANGED <<apiKey, pollingTimeoutRef, currentVideoUrlRef, submits,
                    blobUrls, dlFetching, dlTemp>>

\* pollCatch with a retry: the error is reported and the next tick scheduled
pollCatchRetry(g, error) ==
  /\ toasts' = <<Error(<<MsgStatusPrefix>> \o error.message)>>
  /\ video' = [video EXCEPT !.status = "failed"]
  /\ phase' = [phase EXCEPT ![g] = "timer"]
  /\ pollingTimeoutRef' = g
  /\ UNCHANGED <<currentVideoUrlRef>>

\* poll, lines 250-267: getVideoStatus has thrown `error`
pollCatch(g, error) ==
  /\ toasts' = <<Error(<<MsgStatusPrefix>> \o error.message)>>
  /\ video' = [video EXCEPT !.status = "failed"]
  /\ phase' = [clearTimeout(phase, pollingTimeoutRef) EXCEPT ![g] = "done"]
  /\ pollingTimeoutRef' = Null
  /\ UNCHANGED <<currentVideoUrlRef>>

\* pollStatus that treats a reported "failed" like a status it does not
\* know: the failure is reported and the next tick scheduled
pollStatusRetryFailed(g, data) ==
  /\ video' = [video EXCEPT !.status = data.status,
                            !.progress = OrZero(data.progress)]
  /\ IF data.status = "completed"
       THEN /\ phase' = [phase EXCEPT ![g] = "content"]
            /\ toasts' = <<>>
            /\ UNCHANGED pollingTimeoutRef
     ELSE /\ phase' = [phase EXCEPT ![g] = "timer"]
          /\ pollingTimeoutRef' = g
          /\ toasts' = IF data.status = "failed"
                         THEN <<Error(<<MsgFailedPrefix,
                                        IF data.error = NoMessage
                                          THEN MsgGenerateDefault
                                          ELSE data.error>>)>>
                         ELSE <<>>
  /\ UNCHANGED <<currentVideoUrlRef>>

\* poll, lines 197-249: getVideoStatus has returned `data`
pollStatus(g, data) ==
  /\ video' = [video EXCEPT !.status = data.status,
                            !.progress = OrZero(data.progress)]
  /\ IF data.status = "completed"
       THEN /\ phase' = [phase EXCEPT ![g] = "content"]  \* getVideoContent
            /\ toasts' = <<>>
            /\ UNCHANGED pollingTimeoutRef
     ELSE IF data.status = "failed"
       THEN /\ phase' = [phase EXCEPT ![g] = "done"]
            /\ toasts' = <<Error(<<MsgFailedPrefix,
                                   IF data.error = NoMessage
                                     THEN MsgGenerateDefault
                                     ELSE data.error>>)>>
            /\ UNCHANGED pollingTimeoutRef
     ELSE /\ phase' = [phase EXCEPT ![g] = "timer"]      \* setTimeout(poll)
          /\ pollingTimeoutRef' = g
          /\ toasts' = <<>>
  /\ UNCHANGED <<currentVideoUrlRef>>

\* poll resumed at line 195 with the settled GET of generation g's status
statusSettles(g, r) ==
  LET thrown == getVideoStatusResult(r)
  IN /\ phase[g] = "status"
     /\ IF thrown = <<>> THEN pollStatus(g, r.body[1])
        ELSE pollCatch(g, thrown[1])
     /\ UNCHANGED <<apiKey, submits, blobUrls, dlFetching, dlTemp>>

\* pollContent that keeps the new URL in the ref only
pollContentRefOnly(g) ==
  /\ blobUrls' = blobUrls \cup {g}
  /\ currentVideoUrlRef' = g
  /\ video' = video
  /\ toasts' = <<Success(<<MsgCompleted>>)>>

\* poll, lines 208-225: getVideoContent has returned a blob
pollContent(g) ==
  /\ blobUrls' = blobUrls \cup {g}            \* URL.createObjectURL(blob)
  /\ currentVideoUrlRef' = g
  /\ video' = [video EXCEPT !.videoUrl = g]
  /\ toasts' = <<Success(<<MsgCompleted>>)>>

\* poll resumed at line 207 with the settled GET of generation g's content
contentSettles(g, r) ==
  LET thrown == getVideoContentResult(r)
  IN /\ phase[g] = "content"
     /\ phase' = [phase EXCEPT ![g] = "done"]
     /\ IF thrown = <<>> THEN pollContent(g)
        ELSE /\ toasts' = <<Error(<<MsgContentPrefix>> \o thrown[1].message)>>
             /\ video' = [video EXCEPT !.status = "failed"]
             /\ UNCHANGED <<blobUrls, currentVideoUrlRef>>
     /\ UNCHANGED <<apiKey, pollingTimeoutRef, submits, dlFetching, dlTemp>>

\* the timer of line 245 or 248 fires: poll() issues the next status request
timerFires(g) ==
  /\ phase[g] = "timer"
  /\ phase' = [phase EXCEPT ![g] = "status"]
  /\ toasts' = <<>>
  /\ UNCHANGED <<apiKey, video, pollingTimeoutRef, currentVideoUrlRef, submits,
                 blobUrls, dlFetching, dlTemp>>

\* resetVideo that keeps the state's videoUrl
resetVideoKeepUrl ==
  /\ phase' = cleanupTimers
  /\ pollingTimeoutRef' = Null
  /\ blobUrls' = cleanupUrls
  /\ currentVideoUrlRef' = Null
  /\ video' = [id |-> Null, status |-> "idle", progress |-> 0,
               videoUrl |-> video.videoUrl, prompt |-> "",
               options |-> video.options, referenceImage |-> NoImage]
  /\ toasts' = <<>>
  /\ UNCHANGED <<apiKey, submits, dlFetching, dlTemp>>

resetVideo ==
  /\ phase' = cleanupTimers
  /\ pollingTimeoutRef' = Null
  /\ blobUrls' = cleanupUrls
  /\ currentVideoUrlRef' = Null
  /\ video' = [id |-> Null, status |-> "idle", progress |-> 0,
               videoUrl |-> Null, prompt |-> "", options |-> video.options,
               referenceImage |-> NoImage]
  /\ toasts' = <<>>
  /\ UNCHANGED <<apiKey, submits, dlFetching, dlTemp>>

\* downloadVideo, lines 283-287: nothing to download
rejectNoVideo ==
  /\ toasts' = <<Error(<<MsgNoVideo>>)>>
  /\ UNCHANGED <<apiKey, video, pollingTimeoutRef, currentVideoUrlRef, phase,
                 submits, blobUrls, dlFetching, dlTemp>>

\* downloadVideo, lines 289-291: up to the await of fetch(video.videoUrl)
startDownload ==
  /\ dlFetching + dlTemp < MaxDownloads
  /\ dlFetching' = dlFetching + 1
  /\ toasts' = <<>>
  /\ UNCHANGED <<apiKey, video, pollingTimeoutRef, currentVideoUrlRef, phase,
                 submits, blobUrls, dlTemp>>

\* downloadVideo without the check of lines 283-287
downloadVideoUnchecked == startDownload

downloadVideo ==
  IF video.videoUrl = Null THEN rejectNoVideo ELSE startDownload

\* downloadVideo resumed at line 291: the fetch of the object URL settles
\* (it fails when the URL was revoked before the fetch read it); on success
\* a second object URL is made, the save-as is triggered by a.click() and
\* the revoke of the second URL is put on a 100 ms timer
\* downloadVideo that revokes the hook's URL once the save-as is triggered
downloadSettlesRevoking(ok) ==
  /\ dlFetching > 0
  /\ dlFetching' = dlFetching - 1
  /\ IF ok
       THEN /\ dlTemp' = dlTemp + 1
            /\ blobUrls' = cleanupUrls
            /\ toasts' = <<Success(<<MsgDownloadStarted>>)>>
       ELSE /\ dlTemp' = dlTemp
            /\ blobUrls' = blobUrls
            /\ toasts' = <<Error(<<MsgDownloadPrefix, MsgFetch>>)>>
  /\ UNCHANGED <<apiKey, video, pollingTimeoutRef, currentVideoUrlRef, phase,
                 submits>>

downloadSettles(ok) ==
  /\ dlFetching > 0
  /\ dlFetching' = dlFetching - 1
  /\ IF ok
       THEN dlTemp' = dlTemp + 1 /\ toasts' = <<Success(<<MsgDownloadStarted>>)>>
       ELSE dlTemp' = dlTemp /\ toasts' = <<Error(<<MsgDownloadPrefix, MsgFetch>>)>>
  /\ UNCHANGED <<apiKey, video, pollingTimeoutRef, currentVideoUrlRef, phase,
                 submits, blobUrls>>

\* the timer of line 313 fires: window.URL.revokeObjectURL(url)
downloadCleanup ==
  /\ dlTemp > 0
  /\ dlTemp' = dlTemp - 1
  /\ toasts' = <<>>
  /\ UNCHANGED <<apiKey, video, pollingTimeoutRef, currentVideoUrlRef, phase,
                 submits, blobUrls, dlFetching>>

\* The lifecycle with the credential the hook was mounted with (Init has
\* both a stored key and none).
Next ==
  \/ (\E imageData \in WidgetImages : setReferenceImage(imageData))
       /\ UNCHANGED hookOnly
  \/ (\E options \in OptionValues : updateOptions(options))
       /\ UNCHANGED hookOnly
  \/ (\E prompt \in Prompts, options \in OptionValues, referenceImage \in Images :
         generateVideo(prompt, options, referenceImage))
       /\ UNCHANGED hookOnly
  \/ (\E g \in Gens, r \in CreateResponses : createSettles(g, r))
       /\ UNCHANGED hookOnly
  \/ (\E g \in Gens, r \in StatusResponses : statusSettles(g, r))
       /\ UNCHANGED hookOnly
  \/ (\E g \in Gens, r \in ContentResponses : contentSettles(g, r))
       /\ UNCHANGED hookOnly
  \/ (\E g \in Gens : timerFires(g)) /\ UNCHANGED hookOnly
  \/ resetVideo /\ UNCHANGED hookOnly
  \/ downloadVideo /\ UNCHANGED hookOnly
  \/ (\E ok \in BOOLEAN : downloadSettles(ok)) /\ UNCHANGED hookOnly
  \/ downloadCleanup /\ UNCHANGED hookOnly

Spec == Init /\ [][Next]_vars

\* The lifecycle of the videos and of their object URLs: submits with the
\* options and the image the state holds, the polls, resets and downloads.
NextDownload ==
  \/ (\E prompt \in Prompts :
         generateVideo(prompt, video.options, video.referenceImage))
       /\ UNCHANGED hookOnly
  \/ (\E g \in Gens, r \in CreateResponses : createSettles(g, r))
       /\ UNCHANGED hookOnly
  \/ (\E g \in Gens, r \in StatusResponses : statusSettles(g, r))
       /\ UNCHANGED hookOnly
  \/ (\E g \in Gens, r \in ContentResponses : contentSettles(g, r))
       /\ UNCHANGED hookOnly
  \/ (\E g \in Gens : timerFires(g)) /\ UNCHANGED hookOnly
  \/ resetVideo /\ UNCHANGED hookOnly
  \/ downloadVideo /\ UNCHANGED hookOnly
  \/ (\E ok \in BOOLEAN : downloadSettles(ok)) /\ UNCHANGED hookOnly
  \/ downloadCleanup /\ UNCHANGED hookOnly

SpecDownload == Init /\ [][NextDownload]_vars

\* The lifecycle with a credential that any caller of saveApiKey may
\* replace, by the empty string too, at any time.
NextKeys ==
  \/ (\E key \in ApiKeys : saveApiKey(key)) /\ UNCHANGED hookOnly
  \/ (\E prompt \in Prompts, options \in OptionValues, referenceImage \in Images :
         generateVideo(prompt, options, referenceImage))
       /\ UNCHANGED hookOnly
  \/ (\E g \in Gens, r \in CreateResponses : createSettles(g, r))
       /\ UNCHANGED hookOnly
  \/ (\E g \in Gens, r \in StatusResponses : statusSettles(g, r))
       /\ UNCHANGED hookOnly
  \/ (\E g \in Gens, r \in ContentResponses : contentSettles(g, r))
       /\ UNCHANGED hookOnly
  \/ (\E g \in Gens : timerFires(g)) /\ UNCHANGED hookOnly
  \/ resetVideo /\ UNCHANGED hookOnly

SpecKeys == Init /\ [][NextKeys]_vars

\* One generation observed from its submit to its end, with no other
\* command in between: the first submit of the controller, every answer the
\* remote system may give, and a record of the transport's calls.

\* a completed report need not carry a progress (progress?: number)
\* and a non-2xx response may carry a body that reads like a report
RunStatusResponses ==
  StatusResponses
    \cup {[net |-> TRUE, status |-> 200, json |-> TRUE, message |-> NoMessage,
           body |-> <<[status |-> "completed", progress |-> <<>>,
                       error |-> NoMessage]>>],
          [net |-> TRUE, status |-> 503, json |-> TRUE, message |-> NoMessage,
           body |-> <<[status |-> "in_progress", progress |-> <<40>>,
                       error |-> NoMessage]>>]}

\* calls the step makes for generation g: poll() calls getVideoStatus when
\* g's loop comes to await it (line 195), getVideoContent likewise (207)
Called(g, awaiting) == IF phase'[g] = awaiting /\ phase[g] # awaiting THEN 1 ELSE 0

\* the record after a step of generation g in which the calls named in
\* `failed` threw, getVideoStatus returned `reports` (one body or none) and
\* getVideoContent settled as `content`
Traffic(g, failed, reports, content) ==
  /\ transport' = [createCalls |-> transport.createCalls + Called(g, "create"),
                   statusCalls |-> transport.statusCalls + Called(g, "status"),
                   contentCalls |-> transport.contentCalls + Called(g, "content"),
                   failed |-> transport.failed \cup failed,
                   reports |-> transport.reports \o reports,
                   content |-> content]
  /\ UNCHANGED <<call, page, mounted>>

NextRun ==
  \/ /\ submits = 0
     /\ \E prompt \in Prompts, options \in OptionValues, referenceImage \in Images :
          generateVideo(prompt, options, referenceImage)
     /\ Traffic(1, {}, <<>>, transport.content)
  \/ \E g \in Gens, r \in CreateResponses :
       /\ createSettles(g, r)
       /\ Traffic(g, IF generateVideoResult(r) = <<>> THEN {} ELSE {"create"},
                  <<>>, transport.content)
  \/ \E g \in Gens, r \in RunStatusResponses :
       /\ statusSettles(g, r)
       /\ Traffic(g, IF getVideoStatusResult(r) = <<>> THEN {} ELSE {"status"},
                  IF getVideoStatusResult(r) = <<>> THEN r.body ELSE <<>>,
                  transport.content)
  \/ \E g \in Gens, r \in ContentResponses :
       /\ contentSettles(g, r)
       /\ Traffic(g, IF getVideoContentResult(r) = <<>> THEN {} ELSE {"content"},
                  <<>>,
                  IF getVideoContentResult(r) = <<>> THEN "ok" ELSE "error")
  \/ \E g \in Gens :
       /\ transport.statusCalls < MaxTicks
       /\ timerFires(g)
       /\ Traffic(g, {}, <<>>, transport.content)

SpecRun == Init /\ [][NextRun]_vars

\* ------------------------------------------------ helper functions called

\* The helper functions of the transport and of the upload widget, each
\* called once on arguments drawn from the values below.

\* non-2xx statuses, and error.code || error.type of an error body
ErrorStatuses == {400, 401, 403, 404, 429, 500, 503}
ErrorCodes == {NoMessage, "billing_hard_limit_reached", "invalid_api_key"}

\* non-2xx answers to POST /videos, with a JSON body or another one
ErrorResponses ==
  {[net |-> TRUE, status |-> st, json |-> js, code |-> cd, message |-> ms] :
     st \in ErrorStatuses, js \in BOOLEAN, cd \in ErrorCodes,
     ms \in {NoMessage, RemoteMessage, OrgMessage}}

\* the body of the POST of soraApi.generateVideo, lines 120-130: always the
\* FormData of buildFormData, which fetch sends as multipart/form-data
createRequest(prompt, options, referenceImage) ==
  [contentType |-> "multipart/form-data",
   form |-> buildFormData(prompt, options, referenceImage)]

\* sizes of GenerationOptions.size and targetSize.split('x').map(Number)
TargetSizes == {"1280x720", "720x1280", "1792x1024", "1024x1792"}
Dimensions(size) ==
  CASE size = "1280x720" -> <<1280, 720>>
    [] size = "720x1280" -> <<720, 1280>>
    [] size = "1792x1024" -> <<1792, 1024>>
    [] size = "1024x1792" -> <<1024, 1792>>

\* img.width, img.height of the decoded source images
SourceSizes == {<<640, 480>>, <<1280, 720>>, <<1920, 1080>>, <<720, 1280>>,
                <<100, 100>>, <<4000, 500>>}

\* resizeImage, lines 173-204: the canvas and the rectangle of drawImage.
\* scale = Math.max(targetWidth / img.width, targetHeight / img.height);
\* lengths other than the canvas's are exact fractions, given in units of
\* 1 / unit pixels, unit being twice the side of the source that scale
\* divides by.
resizeImage(width, height, targetSize) ==
  LET targetWidth == Dimensions(targetSize)[1]
      targetHeight == Dimensions(targetSize)[2]
      byWidth == targetWidth * height >= targetHeight * width
      unit == IF byWidth THEN 2 * width ELSE 2 * height
      scaledWidth == IF byWidth THEN targetWidth * unit
                     ELSE 2 * width * targetHeight
      scaledHeight == IF byWidth THEN 2 * height * targetWidth
                      ELSE targetHeight * unit
  IN [canvasWidth |-> targetWidth, canvasHeight |-> targetHeight,
      fillStyle |-> "#000000", unit |-> unit,
      x |-> (targetWidth * unit - scaledWidth) \div 2,
      y |-> (targetHeight * unit - scaledHeight) \div 2,
      scaledWidth |-> scaledWidth, scaledHeight |-> scaledHeight]

\* the hook's updateOptions in its version with the shouldClearImage
\* parameter (soraApi.ts:697-715): the updater of setVideo applied to the
\* state prev, and the notification it makes
Warning(text) == [level |-> "warning", text |-> text]
MsgSizeChanged == "size changed, upload the reference image again"

updateOptionsAlwaysClear(prev, options, shouldClearImage) ==
  LET sizeChanged == prev.options.size # options.size
  IN [video |-> [prev EXCEPT !.options = options,
                              !.referenceImage =
                                 IF sizeChanged THEN NoImage ELSE @],
      toasts |-> IF sizeChanged /\ prev.referenceImage # NoImage
                   THEN <<Warning(<<MsgSizeChanged>>)>> ELSE <<>>]

updateOptionsShouldClear(prev, options, shouldClearImage) ==
  LET sizeChanged == prev.options.size # options.size
  IN [video |-> [prev EXCEPT !.options = options,
                              !.referenceImage =
                                 IF sizeChanged /\ shouldClearImage THEN NoImage
                                 ELSE @],
      toasts |-> IF sizeChanged /\ shouldClearImage
                      /\ prev.referenceImage # NoImage
                   THEN <<Warning(<<MsgSizeChanged>>)>> ELSE <<>>]

callUpdateOptions(prev, options, shouldClearImage) ==
  call' = [fn |-> "updateOptions", prev |-> prev, options |-> options,
           shouldClearImage |-> shouldClearImage,
           result |-> updateOptionsShouldClear(prev, options, shouldClearImage)]

callGenerateVideo(r) ==
  call' = [fn |-> "generateVideo", response |-> r,
           thrown |-> generateVideoResult(r)]

callCreateRequest(prompt, options, referenceImage) ==
  call' = [fn |-> "createRequest", referenceImage |-> referenceImage,
           request |-> createRequest(prompt, options, referenceImage)]

\* resizeImage, lines 112-171: the notifications made before the canvas is
\* drawn.  resolutionRatio = originalPixels / targetPixels is compared with
\* 0.25, 0.5 and 0.75, the difference of the aspect ratios with 0.3, the
\* canvas's estimated memory with 100 MB; the comparisons are made on the
\* integers the quotients are made of.
Info(text) == [level |-> "info", text |-> text]
MsgLowResolution == "the resolution is below 25% of the target" \* line 131
MsgLowQuality == "low resolution, the quality may drop"         \* line 140
MsgUpscaled == "the image will be upscaled a little"            \* line 146
MsgAspect == "the aspect ratios differ"                         \* line 155
MsgProcessing == "processing..."                                \* line 167
MsgLargeData == "the image data is large"                       \* line 228
MsgNoContext == "no canvas context"                             \* line 181
MsgDrawFailed == "drawing the image failed: "                   \* line 237
MaxCanvasMB == 100
Abs(n) == IF n < 0 THEN 0 - n ELSE n

resizeAdvisories(width, height, targetSize) ==
  LET targetWidth == Dimensions(targetSize)[1]
      targetHeight == Dimensions(targetSize)[2]
      originalPixels == width * height
      targetPixels == targetWidth * targetHeight
      resolution ==
        IF 4 * originalPixels < targetPixels
          THEN <<Error(<<MsgLowResolution>>)>>
        ELSE IF 2 * originalPixels < targetPixels
          THEN <<Warning(<<MsgLowQuality>>)>>
        ELSE IF 4 * originalPixels < 3 * targetPixels
          THEN <<Info(<<MsgUpscaled>>)>>
        ELSE <<>>
      aspect ==
        IF 10 * Abs(width * targetHeight - targetWidth * height)
             > 3 * height * targetHeight
          THEN <<Warning(<<MsgAspect>>)>> ELSE <<>>
      memory ==
        IF targetPixels * 4 > MaxCanvasMB * 1024 * 1024
          THEN <<Warning(<<MsgProcessing>>)>> ELSE <<>>
  IN resolution \o aspect \o memory

\* resizeImage, lines 91-262, as the promise it returns: the notifications
\* it makes and how it settles.  ctx is what canvas.getContext returns
\* ("none" for null), encoded what canvas.toDataURL does ("throws", or the
\* size class of the data URL it returns: "large" above 5 MB)
CanvasContexts == {"2d", "none"}
Encodings == {"small", "large", "throws"}

resizeImageRejectLow(width, height, targetSize, ctx, encoded) ==
  LET advisories == resizeAdvisories(width, height, targetSize)
  IN IF ctx = "none" \/ (advisories # <<>>
                         /\ advisories[1] = Error(<<MsgLowResolution>>))
       THEN [toasts |-> advisories, settled |-> "rejected",
             value |-> <<MsgNoContext>>]
     ELSE IF encoded = "throws"
       THEN [toasts |-> advisories, settled |-> "rejected",
             value |-> <<MsgDrawFailed>>]
     ELSE [toasts |-> advisories \o
                      (IF encoded = "large"
                         THEN <<Warning(<<MsgLargeData>>)>> ELSE <<>>),
           settled |-> "resolved", value |-> <<"data:image/png;base64">>]

resizeImageSettles(width, height, targetSize, ctx, encoded) ==
  LET advisories == resizeAdvisories(width, height, targetSize)
  IN IF ctx = "none"
       THEN [toasts |-> advisories, settled |-> "rejected",
             value |-> <<MsgNoContext>>]
     ELSE IF encoded = "throws"
       THEN [toasts |-> advisories, settled |-> "rejected",
             value |-> <<MsgDrawFailed>>]
     ELSE [toasts |-> advisories \o
                      (IF encoded = "large"
                         THEN <<Warning(<<MsgLargeData>>)>> ELSE <<>>),
           settled |-> "resolved", value |-> <<"data:image/png;base64">>]

callResizeImage(source, targetSize, ctx, encoded) ==
  call' = [fn |-> "resizeImage", source |-> source, targetSize |-> targetSize,
           ctx |-> ctx, encoded |-> encoded,
           drawn |-> resizeImage(source[1], source[2], targetSize),
           promise |-> resizeImageSettles(source[1], source[2], targetSize,
                                          ctx, encoded)]

NextCalls ==
  \/ (\E r \in ErrorResponses \cup CreateResponses : callGenerateVideo(r))
       /\ UNCHANGED hookState
  \/ (\E prompt \in Prompts, options \in OptionValues,
         referenceImage \in {NoImage, GoodImage, PaddedImage, NoCommaImage,
                             BadCharImage} :
         callCreateRequest(prompt, options, referenceImage))
       /\ UNCHANGED hookState
  \/ (\E source \in SourceSizes, targetSize \in TargetSizes,
         ctx \in CanvasContexts, encoded \in Encodings :
         callResizeImage(source, targetSize, ctx, encoded))
       /\ UNCHANGED hookState
  \/ (\E held \in OptionValues, imageData \in WidgetImages,
         options \in OptionValues \cup {[DefaultOptions EXCEPT !.seconds = "12"]},
         shouldClearImage \in BOOLEAN :
         callUpdateOptions([InitialVideo EXCEPT !.options = held,
                                               !.referenceImage = imageData],
                           options, shouldClearImage))
       /\ UNCHANGED hookState

SpecCalls == Init /\ [][NextCalls]_vars

\* ------------------------------------------------- the cover-fit in doubles

\* resizeImage, lines 189-193, in the arithmetic the code runs in: every
\* number is an IEEE 754 double and every / and * rounds its exact result to
\* the nearest double, ties to the even mantissa.  The sides are integers
\* below 2^12, so the rounding of both operations is worked out on small
\* integers.

MantissaBits == 53       \* the significand of a double
MaxFitSide == 70         \* sides of the source images of the cover-fit

RECURSIVE Pow2(_)
Pow2(k) == IF k = 0 THEN 1 ELSE 2 * Pow2(k - 1)

\* the exponent of n / d: the e with 2^e <= n / d < 2^(e + 1)
RECURSIVE Exponent(_, _)
Exponent(n, d) ==
  IF n >= 2 * d THEN Exponent(n, 2 * d) + 1
  ELSE IF n < d THEN Exponent(2 * n, d) - 1
  ELSE 0

\* (n * 2^k) % w
RECURSIVE TimesPow2Mod(_, _, _)
TimesPow2Mod(n, k, w) ==
  IF k = 0 THEN n % w ELSE TimesPow2Mod((2 * n) % w, k - 1, w)

\* n / d (n >= 0) rounded to the nearest integer, ties to the even one
RoundHalfEven(n, d) ==
  LET q == n \div d
      r == n % d
  IN IF 2 * r > d \/ (2 * r = d /\ q % 2 = 1) THEN q + 1 ELSE q

IsPow2(n) == \E k \in 0..12 : n = Pow2(k)

\* The double t / s is m * 2^(e - 52) with e the exponent of t / s and m the
\* integer nearest to t * 2^(52 - e) / s (never half way between two: the
\* quotient would need 54 bits and be an integer multiple of 1 / s).
\* quotientError is s * m - t * 2^(52 - e): the error of the rounded
\* quotient, times s, in units of 2^(e - 52).
quotientError(t, s) ==
  LET r == TimesPow2Mod(t, MantissaBits - 1 - Exponent(t, s), s)
  IN IF 2 * r < s THEN 0 - r ELSE s - r

\* The double n * (t / s), seen from the target length `target`.  The exact
\* product is n * t / s + n * quotientError(t, s) / s units of 2^(e - 52).
\* When n * t / s is not the target it is off it by 1 / s at least, which no
\* rounding bridges: the product is "above" or "below".  When it is the
\* target the product is the double `ulps` doubles after (before, when
\* negative) the target: the doubles above a target with exponent a are
\* 2^(a - 52) apart, and those below it as well unless the target is a
\* power of two, where they are 2^(a - 53) apart.
scaledLength(n, t, s, target) ==
  LET D == quotientError(t, s)
      den == s * Pow2(Exponent(target, 1) - Exponent(t, s))
  IN IF n * t > target * s THEN [cmp |-> "above", ulps |-> 0]
     ELSE IF n * t < target * s THEN [cmp |-> "below", ulps |-> 0]
     ELSE [cmp |-> "near",
           ulps |-> IF D >= 0 THEN RoundHalfEven(n * D, den)
                    ELSE IF IsPow2(target)
                      THEN 0 - RoundHalfEven(2 * n * (0 - D), den)
                    ELSE 0 - RoundHalfEven(n * (0 - D), den)]

\* scale = Math.min(...): the contain-fit
containFit(width, height, targetSize) ==
  LET targetWidth == Dimensions(targetSize)[1]
      targetHeight == Dimensions(targetSize)[2]
      byWidth == targetWidth * height <= targetHeight * width
      t == IF byWidth THEN targetWidth ELSE targetHeight
      s == IF byWidth THEN width ELSE height
  IN [byWidth |-> byWidth,
      scaledWidth |-> scaledLength(width, t, s, targetWidth),
      scaledHeight |-> scaledLength(height, t, s, targetHeight)]

\* lines 189-191: scale = Math.max(targetWidth / img.width, targetHeight /
\* img.height) is the quotient of the width when targetWidth / img.width is
\* the larger one (two different quotients differ by far more than their
\* rounding, and equal ones are the same double); scaledWidth = img.width *
\* scale, scaledHeight = img.height * scale.  x and y of lines 192-193 are
\* (target - scaled) / 2, which is exact: x <= 0 exactly when scaledWidth
\* is not below targetWidth.
coverFit(width, height, targetSize) ==
  LET targetWidth == Dimensions(targetSize)[1]
      targetHeight == Dimensions(targetSize)[2]
      byWidth == targetWidth * height >= targetHeight * width
      t == IF byWidth THEN targetWidth ELSE targetHeight
      s == IF byWidth THEN width ELSE height
  IN [byWidth |-> byWidth,
      scaledWidth |-> scaledLength(width, t, s, targetWidth),
      scaledHeight |-> scaledLength(height, t, s, targetHeight)]

FitSources == ((1..MaxFitSide) \X (1..MaxFitSide)) \cup SourceSizes

\* the hook as Init has it and resizeImage about to draw an image of one of
\* the source sizes for one of the target sizes
InitFit ==
  /\ apiKey = NoKey
  /\ video = InitialVideo
  /\ pollingTimeoutRef = Null
  /\ currentVideoUrlRef = Null
  /\ phase = [g \in Gens |-> "unused"]
  /\ submits = 0
  /\ blobUrls = {}
  /\ dlFetching = 0
  /\ dlTemp = 0
  /\ toasts = <<>>
  /\ transport = NoTraffic
  /\ call \in {[fn |-> "img.onload", source |-> source, targetSize |-> targetSize] :
                 source \in FitSources, targetSize \in TargetSizes}
  /\ page = InitialPage
  /\ mounted = TRUE

callCoverFit ==
  /\ call.fn = "img.onload"
  /\ call' = [fn |-> "coverFit", source |-> call.source,
              targetSize |-> call.targetSize,
              fit |-> coverFit(call.source[1], call.source[2], call.targetSize)]
  /\ UNCHANGED hookState

NextFit == callCoverFit

SpecFit == InitFit /\ [][NextFit]_vars

\* ----------------------------------------------------------- teardown

\* The hook unmounted while its requests are in flight.

\* the cleanup of the effect of lines 40-59: the timer of the ref cleared
\* and the ref set to null, the URL of the ref revoked and the ref set to
\* null
unmount ==
  /\ mounted
  /\ mounted' = FALSE
  /\ phase' = cleanupTimers
  /\ pollingTimeoutRef' = Null
  /\ blobUrls' = cleanupUrls
  /\ currentVideoUrlRef' = Null
  /\ toasts' = <<>>
  /\ UNCHANGED <<apiKey, video, submits, dlFetching, dlTemp, transport, call,
                 page>>

\* Commands come from the mounted page only; the continuations of poll and
\* of generateVideo run whether the hook is mounted or not (nothing in
\* them looks at it; poll branches on the response, never on the state).
NextTeardown ==
  \/ /\ mounted
     /\ \E prompt \in Prompts, options \in OptionValues, referenceImage \in Images :
          generateVideo(prompt, options, referenceImage)
     /\ UNCHANGED hookOnly
  \/ (\E g \in Gens, r \in CreateResponses : createSettles(g, r))
       /\ UNCHANGED hookOnly
  \/ (\E g \in Gens, r \in StatusResponses : statusSettles(g, r))
       /\ UNCHANGED hookOnly
  \/ (\E g \in Gens, r \in ContentResponses : contentSettles(g, r))
       /\ UNCHANGED hookOnly
  \/ (\E g \in Gens : timerFires(g)) /\ UNCHANGED hookOnly
  \/ unmount

SpecTeardown == Init /\ [][NextTeardown]_vars

\* ------------------------------------------------------------- the page

\* Index.tsx with the hook, the options and the upload widget.
\* ImageUpload.tsx holds two versions of the widget (lines 1-507 and from
\* 509); the page renders one of them.

pageOnly == <<transport, call, mounted>>
hookRest == <<apiKey, pollingTimeoutRef, currentVideoUrlRef, phase, submits,
              blobUrls, dlFetching, dlTemp>>

MaxFileSize == 10 * 1024 * 1024
validImageTypes == {<<"image", "jpeg">>, <<"image", "png">>,
                    <<"image", "webp">>, <<"image", "gif">>}

\* file.size and file.type (type "/" subtype) of the file chosen
Files ==
  {[size |-> sz, type |-> ty] :
     sz \in {1, MaxFileSize, MaxFileSize + 1},
     ty \in validImageTypes \cup {<<"image", "bmp">>, <<"application", "pdf">>}}

MsgTooLarge == "the image is too large"                    \* ImageUpload:282
MsgUnsupported == "unsupported image format"               \* ImageUpload:293
MsgAtMost10MB == "the image must be 10MB or less"          \* ImageUpload:687
MsgNotImage == "choose an image file"                      \* ImageUpload:694
MsgImageSet == "reference image set"                       \* ImageUpload:324
MsgImageError == "image processing error"                  \* ImageUpload:346
MsgAutoResized == "image resized for the new size"         \* ImageUpload:49
MsgAutoFailed == "automatic resize failed: "               \* ImageUpload:60
MsgReupload == "size changed, upload the image again"      \* ImageUpload:538
MsgResized == "image resized"                              \* ImageUpload:375
MsgResizeFailed == "resize failed"                         \* ImageUpload:378
MsgResizeError == "image could not be processed"  \* rejection of resizeImage
MsgSetKey == "set the API key"                             \* Index.tsx:46

\* Index.tsx line 76
isGenerating == video.status \in {"queued", "in_progress"}

\* the first render of the page
ImageUpload(widget) ==
  /\ page.widget = 0
  /\ page' = [page EXCEPT !.widget = widget]
  /\ toasts' = <<>>
  /\ UNCHANGED <<video, hookRest>>

\* handleFileSelect up to its try block: the text of the toast a file is
\* turned down with, <<>> for a file that is taken (lines 279-298, and
\* lines 684-696 of the second version)
fileRejected(widget, file) ==
  IF widget = 1
    THEN IF file.size > MaxFileSize THEN <<MsgTooLarge>>
         ELSE IF file.type \notin validImageTypes THEN <<MsgUnsupported>>
         ELSE <<>>
    ELSE IF file.size > MaxFileSize THEN <<MsgAtMost10MB>>
         ELSE IF file.type[1] # "image" THEN <<MsgNotImage>>
         ELSE <<>>

\* handleFileSelect up to the await of resizeImage
handleFileSelect(file) ==
  /\ page.widget # 0
  /\ ~isGenerating
  /\ page.resizing = NoResize
  /\ IF fileRejected(page.widget, file) # <<>>
       THEN /\ toasts' = <<Error(fileRejected(page.widget, file))>>
            /\ page' = page
       ELSE /\ toasts' = <<>>
            /\ page' = [page EXCEPT
                          !.lastFile = TRUE,
                          !.resizing = [for |-> video.options.size,
                                        by |-> "select"]]
  /\ UNCHANGED <<video, hookRest>>

\* the options changed (GenerationOptions onChange = updateOptions of
\* part_000:345-348) and the effect on targetSize that the render runs:
\* the first version starts resizeImage(lastFile) for the new size, the
\* second one asks for a new upload; the controller's image is not touched
onChangeOptions(options) ==
  LET stale == options.size # page.currentSize
                 /\ video.referenceImage # NoImage /\ page.lastFile
  IN /\ page.widget # 0
     /\ ~isGenerating
     /\ page.resizing = NoResize
     /\ video' = [video EXCEPT !.options = options]
     /\ IF stale /\ page.widget = 1
          THEN /\ page' = [page EXCEPT !.resizing = [for |-> options.size,
                                                    by |-> "effect"]]
               /\ toasts' = <<>>
        ELSE IF stale
          THEN /\ page' = [page EXCEPT !.needsResize = TRUE,
                                      !.currentSize = options.size]
               /\ toasts' = <<Warning(<<MsgReupload>>)>>
        ELSE /\ page' = [page EXCEPT !.currentSize = options.size]
             /\ toasts' = <<>>
     /\ UNCHANGED hookRest

\* handleResize (the button shown under needsResize) up to its await
handleResize ==
  /\ page.widget # 0
  /\ ~isGenerating
  /\ page.resizing = NoResize
  /\ page.needsResize /\ video.referenceImage # NoImage /\ page.lastFile
  /\ page' = [page EXCEPT !.resizing = [for |-> video.options.size,
                                        by |-> "button"]]
  /\ toasts' = <<>>
  /\ UNCHANGED <<video, hookRest>>

\* resizeImage settles: the continuation of handleFileSelect, of the
\* effect or of handleResize; onImageSelect is the hook's setReferenceImage
resizeSettles(resolved) ==
  /\ page.resizing # NoResize
  /\ IF resolved
       THEN /\ video' = [video EXCEPT !.referenceImage = GoodImage]
            /\ page' = [page EXCEPT !.resizing = NoResize,
                                    !.currentSize = page.resizing.for,
                                    !.needsResize = FALSE,
                                    !.encodedFor = page.resizing.for]
            /\ toasts' = <<Success(<<CASE page.resizing.by = "select" -> MsgImageSet
                                       [] page.resizing.by = "effect" -> MsgAutoResized
                                       [] OTHER -> MsgResized>>)>>
     ELSE IF page.resizing.by = "select"
       THEN /\ page' = [page EXCEPT !.resizing = NoResize, !.lastFile = FALSE]
            /\ toasts' = <<Error(<<MsgImageError, MsgResizeError>>)>>
            /\ video' = video
     ELSE IF page.resizing.by = "effect"
       THEN /\ page' = [page EXCEPT !.resizing = NoResize,
                                    !.needsResize = TRUE,
                                    !.currentSize = page.resizing.for]
            /\ toasts' = <<Error(<<MsgAutoFailed, MsgResizeError>>)>>
            /\ video' = video
     ELSE /\ page' = [page EXCEPT !.resizing = NoResize]
          /\ toasts' = <<Error(<<MsgResizeFailed>>)>>
          /\ video' = video
  /\ UNCHANGED hookRest

\* handleRemove
handleRemove ==
  /\ page.widget # 0
  /\ ~isGenerating
  /\ page.resizing = NoResize
  /\ video.referenceImage # NoImage
  /\ video' = [video EXCEPT !.referenceImage = NoImage]
  /\ page' = [page EXCEPT !.needsResize = FALSE, !.lastFile = FALSE,
                          !.encodedFor = "none"]
  /\ toasts' = <<Success(<<"reference image removed">>)>>
  /\ UNCHANGED hookRest

\* the prompt typed into the textarea, a sequence of characters
MaxPromptLength == 500
PagePrompts ==
  {<<>>, <<" ", " ">>, <<"a", " ">>, [i \in 1..MaxPromptLength |-> "a"],
   [i \in 1..(MaxPromptLength + 1) |-> "a"]}

MsgEnterPrompt == "enter a prompt"                         \* Index.tsx:52
MsgPromptTooLong == "the prompt must be 500 characters or less" \* Index.tsx:57

\* Index.handleGenerate, lines 51-59: the text a prompt is turned down
\* with, <<>> for a prompt that is passed on
promptRejected(prompt) ==
  IF Trim(prompt) = <<>> THEN <<MsgEnterPrompt>>
  ELSE IF Len(prompt) > MaxPromptLength THEN <<MsgPromptTooLong>>
  ELSE <<>>

\* the request recorded when the hook has sent one
Sent ==
  [page EXCEPT
     !.sent = IF phase'[submits'] = "create"
                THEN Append(@, [size |-> video.options.size,
                                imageFor |-> page.encodedFor])
                ELSE @]

\* handleGenerate without its checks on the prompt
handleGenerateUnchecked(prompt) ==
  /\ page.widget # 0
  /\ ~isGenerating
  /\ IF ~Truthy(apiKey)
       THEN /\ toasts' = <<Error(<<MsgSetKey>>)>>
            /\ page' = page
            /\ UNCHANGED <<video, hookRest>>
       ELSE /\ generateVideo(prompt, video.options, video.referenceImage)
            /\ page' = Sent

\* Index.handleGenerate with the prompt of the textarea, and the creation
\* request it makes when the hook sends one
handleGenerate(prompt) ==
  /\ page.widget # 0
  /\ ~isGenerating
  /\ IF ~Truthy(apiKey)
       THEN /\ toasts' = <<Error(<<MsgSetKey>>)>>
            /\ page' = page
            /\ UNCHANGED <<video, hookRest>>
     ELSE IF promptRejected(prompt) # <<>>
       THEN /\ toasts' = <<Error(promptRejected(prompt))>>
            /\ page' = page
            /\ UNCHANGED <<video, hookRest>>
       ELSE /\ generateVideo(prompt, video.options, video.referenceImage)
            /\ page' = Sent

NextPage ==
  \/ (\E widget \in {1, 2} : ImageUpload(widget)) /\ UNCHANGED pageOnly
  \/ (\E file \in Files : handleFileSelect(file)) /\ UNCHANGED pageOnly
  \/ (\E options \in OptionValues : onChangeOptions(options))
       /\ UNCHANGED pageOnly
  \/ handleResize /\ UNCHANGED pageOnly
  \/ (\E resolved \in BOOLEAN : resizeSettles(resolved)) /\ UNCHANGED pageOnly
  \/ handleRemove /\ UNCHANGED pageOnly
  \/ (\E prompt \in {<<"a", " ">>} : handleGenerate(prompt))
       /\ UNCHANGED pageOnly
  \/ (\E g \in Gens, r \in CreateResponses : createSettles(g, r))
       /\ UNCHANGED <<page, pageOnly>>

SpecPage == Init /\ [][NextPage]_vars

\* Index.tsx line 77
isCompleted == video.status = "completed"

\* handleNewGeneration, lines 71-74 (the button's onClick when isCompleted)
handleNewGeneration ==
  /\ page.widget # 0
  /\ isCompleted
  /\ resetVideo
  /\ page' = page

\* The generate button with any text in the textarea, and the hook's
\* polling.  The button is handleNewGeneration when isCompleted and
\* handleGenerate otherwise, and it is disabled while isGenerating (line
\* 161; it is disabled on an empty prompt as well, which handleGenerate
\* checks again and is given here).
NextIndex ==
  \/ (\E widget \in {1, 2} : ImageUpload(widget)) /\ UNCHANGED pageOnly
  \/ (~isCompleted /\ \E prompt \in PagePrompts : handleGenerate(prompt))
       /\ UNCHANGED pageOnly
  \/ handleNewGeneration /\ UNCHANGED pageOnly
  \/ (\E g \in Gens, r \in CreateResponses : createSettles(g, r))
       /\ UNCHANGED <<page, pageOnly>>
  \/ (\E g \in Gens, r \in StatusResponses : statusSettles(g, r))
       /\ UNCHANGED <<page, pageOnly>>
  \/ (\E g \in Gens, r \in ContentResponses : contentSettles(g, r))
       /\ UNCHANGED <<page, pageOnly>>
  \/ (\E g \in Gens : timerFires(g)) /\ UNCHANGED <<page, pageOnly>>

SpecIndex == Init /\ [][NextIndex]_vars

\* ------------------------------------------------ the held reference image

\* The hook with any string as its reference image: setReferenceImage takes
\* what its caller hands it, updateOptions sets the options, and a submit
\* sends the state's options and image, as Index.tsx line 68 does.  EmptyPartImage has nothing after its
\* comma, BlankPartImage a space.
EmptyPartImage == <<"H", ",">>
BlankPartImage == <<"H", ",", " ">>
MalformedImages == {NoCommaImage, EmptyPartImage, BlankPartImage, BadCharImage}
HeldImages == {NoImage, GoodImage, PaddedImage} \cup MalformedImages

NextImage ==
  \/ (\E imageData \in HeldImages : setReferenceImage(imageData))
       /\ UNCHANGED hookOnly
  \/ (\E options \in OptionValues : updateOptions(options))
       /\ UNCHANGED hookOnly
  \/ (\E prompt \in Prompts :
         generateVideo(prompt, video.options, video.referenceImage))
       /\ UNCHANGED hookOnly
  \/ (\E g \in Gens, r \in CreateResponses : createSettles(g, r))
       /\ UNCHANGED hookOnly
  \/ (\E g \in Gens, r \in StatusResponses : statusSettles(g, r))
       /\ UNCHANGED hookOnly
  \/ (\E g \in Gens, r \in ContentResponses : contentSettles(g, r))
       /\ UNCHANGED hookOnly
  \/ (\E g \in Gens : timerFires(g)) /\ UNCHANGED hookOnly

SpecImage == Init /\ [][NextImage]_vars

\* ---------------------------------------------------------------- claims

\* the poll loop of generation g is outstanding: a status or content
\* request in flight, or its timer pending
Polling(g) == phase[g] \in {"status", "timer", "content"}

\* a response of generation g's poll loop is delivered in this step
PollResponse(g) ==
  \/ \E r \in StatusResponses : statusSettles(g, r)
  \/ \E r \in ContentResponses : contentSettles(g, r)

\* C1: after a new submit, no response that belongs to an earlier
\* generation's poll loop changes status, progress, id or videoUrl.
C1_StaleResponsesDiscarded ==
  [][\A g \in Gens :
       (g < submits /\ PollResponse(g))
         => /\ video'.status = video.status
            /\ video'.progress = video.progress
            /\ video'.id = video.id
            /\ video'.videoUrl = video.videoUrl]_vars

\* C2: videoUrl is non-null only if status is completed.
C2_HandleOnlyWhenCompleted ==
  video.videoUrl # Null => video.status = "completed"

\* C3: at most one poll loop is outstanding (a pending timer or a tick in
\* flight).
C3_AtMostOnePoll ==
  Cardinality({g \in Gens : Polling(g)}) <= 1

\* C4: at most one artifact object URL is alive.
C4_AtMostOneHandle ==
  Cardinality(blobUrls) <= 1

\* C5: when the artifact of the latest submit (no reference image, no reset
\* or submit since) is fetched successfully, the controller is left with
\* status completed and a non-null videoUrl.  reset clears the prompt and a
\* submit takes the next generation, so a non-empty prompt with g = submits
\* says that g's submit was the last reset or submit.
C5_SubmitCompletes ==
  [][\A g \in Gens, r \in ContentResponses :
       (/\ g = submits
        /\ video.prompt \in Prompts
        /\ video.referenceImage = NoImage
        /\ getVideoContentResult(r) = <<>>
        /\ contentSettles(g, r))
         => (video'.status = "completed" /\ video'.videoUrl # Null)]_vars

\* C6: id is non-null whenever status is queued, in_progress or completed.
C6_IdWhenActive ==
  video.status \in {"queued", "in_progress", "completed"} => video.id # Null

\* the last task reported a failed status request (the toast of line 253)
StatusErrorToast(ts) == ts # <<>> /\ ts[1].text[1] = MsgStatusPrefix

\* C7: when the status request of a generation's poll tick fails (the
\* request ends in this step and the status-check error is notified), the
\* controller's status becomes failed, the timer reference is empty, and
\* that generation's loop has ended; an ended loop never issues a request
\* or holds a timer again.
C7_StatusErrorStopsPolling ==
  [][\A g \in Gens :
       /\ (phase[g] = "status" /\ phase'[g] # "status"
              /\ StatusErrorToast(toasts'))
            => /\ video'.status = "failed"
               /\ pollingTimeoutRef' = Null
               /\ phase'[g] = "done"
       /\ phase[g] = "done" => phase'[g] = "done"]_vars

\* a status request has just failed for the latest generation, whose loop
\* has ended
C7_Witness ==
  /\ submits > 0
  /\ phase[submits] = "done"
  /\ video.status = "failed"
  /\ video.id = submits
  /\ StatusErrorToast(toasts)

\* the notification names the invalid credential: by the text that
\* handleApiError gives a 401, or by the remote system's own message
AuthFlavoured(toast) ==
  \E i \in DOMAIN toast.text : toast.text[i] \in {MsgInvalidKey, RemoteMessage}

\* C8: a 401 answer to the status request of the current generation sets
\* status failed, notifies with the invalid-credential message and ends
\* the loop.
C8_Status401AuthMessage ==
  [][\A g \in Gens, r \in StatusResponses :
       (g = submits /\ r.net /\ r.status = 401 /\ statusSettles(g, r))
         => /\ video'.status = "failed"
            /\ Len(toasts') = 1
            /\ AuthFlavoured(toasts'[1])
            /\ phase'[g] = "done"]_vars

\* C9: downloadVideo with a null videoUrl notifies "no video to download"
\* and changes nothing else: no fetch, no object URL made or revoked.
C9_DownloadWithoutArtifact ==
  [][(video.videoUrl = Null /\ downloadVideo)
       => /\ toasts' = <<Error(<<MsgNoVideo>>)>>
          /\ UNCHANGED <<apiKey, video, pollingTimeoutRef, currentVideoUrlRef,
                         phase, submits, blobUrls, dlFetching, dlTemp>>]_vars

\* the rejected download has happened while a generation was reported
\* completed and its artifact was still being fetched
C9_Witness ==
  /\ toasts = <<Error(<<MsgNoVideo>>)>>
  /\ video.videoUrl = Null
  /\ video.status = "completed"
  /\ \E g \in Gens : phase[g] = "content"

\* C10: generateVideo without a credential notifies "API key is not set"
\* and changes nothing else: no request, no timer cancelled, no URL revoked,
\* the video state kept.
C10_SubmitWithoutKey ==
  [][\A prompt \in Prompts, options \in OptionValues, referenceImage \in Images :
       (~Truthy(apiKey) /\ generateVideo(prompt, options, referenceImage))
         => /\ toasts' = <<Error(<<MsgNoKey>>)>>
            /\ UNCHANGED <<apiKey, video, pollingTimeoutRef, currentVideoUrlRef,
                           phase, submits, blobUrls, dlFetching, dlTemp>>]_vars

\* the rejected submit has happened while a poll timer was pending and
\* while an artifact URL was held
C10_Witness ==
  /\ toasts = <<Error(<<MsgNoKey>>)>>
  /\ \E g \in Gens : phase[g] = "timer" /\ pollingTimeoutRef = g
  /\ currentVideoUrlRef # Null
  /\ currentVideoUrlRef \in blobUrls

\* C11: when the latest submit fails before an identifier is obtained (its
\* reference image does not convert, or its creation request fails), the
\* controller is left with status failed, id null and videoUrl null, one
\* error notification is emitted, and the generation's loop never starts.
C11_SubmitFailureState ==
  [][\A g \in Gens :
       (g = submits' /\ phase[g] \in {"unused", "create"} /\ phase'[g] = "done")
         => /\ video'.status = "failed"
            /\ video'.id = Null
            /\ video'.videoUrl = Null
            /\ Len(toasts') = 1
            /\ toasts'[1].level = "error"]_vars

\* C12: once status is completed or failed, only a reset (which sets idle)
\* or an accepted submit (which takes the next generation) changes it.
C12_TerminalUntilResetOrSubmit ==
  [][(video.status \in {"completed", "failed"} /\ video'.status # video.status)
       => (video'.status = "idle" \/ submits' # submits)]_vars

\* C13: status completed implies a non-null videoUrl.
C13_CompletedHasHandle ==
  video.status = "completed" => video.videoUrl # Null

\* the last task notified a generation failure reported by the remote
\* system (the toast of line 240)
RemoteFailureToast(ts) ==
  /\ Len(ts) = 1
  /\ ts[1].level = "error"
  /\ Len(ts[1].text) = 2
  /\ ts[1].text[1] = MsgFailedPrefix
  /\ ts[1].text[2] \in {RemoteMessage, MsgGenerateDefault}

\* C14: when a status request of generation g returns and the status it
\* reports, which the step stores, is "failed", the step notifies the remote
\* failure with the remote system's message (or the default text), leaves
\* the timer reference as it was and ends g's loop, so that no further tick
\* is scheduled.
C14_RemoteFailureStopsPolling ==
  [][\A g \in Gens :
       (/\ phase[g] = "status"
        /\ phase'[g] # "status"
        /\ video'.status = "failed"
        /\ ~StatusErrorToast(toasts'))
         => /\ RemoteFailureToast(toasts')
            /\ phase'[g] = "done"
            /\ pollingTimeoutRef' = pollingTimeoutRef]_vars

\* the latest generation has just been reported failed with the remote
\* system's message, and its loop has ended
C14_Witness ==
  /\ submits > 0
  /\ phase[submits] = "done"
  /\ video.id = submits
  /\ video.status = "failed"
  /\ toasts = <<Error(<<MsgFailedPrefix, RemoteMessage>>)>>

\* C17: after a later submit has been accepted, no status request is issued
\* for an earlier generation.
C17_NoTickAfterNewSubmit ==
  [][\A g \in Gens :
       (g < submits /\ phase[g] # "status") => phase'[g] # "status"]_vars

\* C18: resetVideo leaves the initial video state (idle, id null, progress
\* 0, videoUrl null, empty prompt, no reference image, the default options),
\* no poll loop outstanding and the held object URL revoked.
C18_ResetRestoresInitial ==
  [][resetVideo
       => /\ video' = InitialVideo
          /\ \A g \in Gens : phase'[g] \notin {"status", "timer", "content"}
          /\ currentVideoUrlRef' = Null
          /\ currentVideoUrlRef # Null => currentVideoUrlRef \notin blobUrls']_vars

\* C19: updateOptions with a size other than the current one, while a
\* reference image is held, clears the reference image and emits exactly one
\* notification.
C19_SizeChangeClearsImage ==
  [][\A options \in OptionValues :
       (/\ options.size # video.options.size
        /\ video.referenceImage # NoImage
        /\ updateOptions(options))
         => /\ video'.referenceImage = NoImage
            /\ Len(toasts') = 1]_vars

\* C20: status is one of idle, queued, in_progress, completed, failed.
C20_StatusInEnum ==
  video.status \in {"idle", "queued", "in_progress", "completed", "failed"}

\* the observed generation has ended with its artifact fetched, after status
\* reports that were k non-terminal ones followed by "completed"
NonTerminal(body) == body.status \notin {"completed", "failed"}

ScriptedRunEnded ==
  LET reports == transport.reports
  IN /\ submits = 1
     /\ phase[1] = "done"
     /\ transport.content = "ok"
     /\ reports # <<>>
     /\ reports[Len(reports)].status = "completed"
     /\ \A i \in 1..(Len(reports) - 1) : NonTerminal(reports[i])

\* with k the number of non-terminal reports: k + 1 status calls, 1 artifact
\* call, status completed, videoUrl set, and the given progress
RunOutcome(progress) ==
  LET reports == transport.reports
      k == Cardinality({i \in DOMAIN reports : NonTerminal(reports[i])})
  IN /\ transport.statusCalls = k + 1
     /\ transport.contentCalls = 1
     /\ video.status = "completed"
     /\ video.videoUrl # Null
     /\ video.progress = progress

Kind(error) ==
  IF error.name # "VideoGenerationError" THEN "TransportError"
  ELSE IF error.message[1] = MsgInvalidKey THEN "AuthError"
  ELSE IF error.message[1] \in {MsgOrgVerify, MsgDenied} THEN "PermissionError"
  ELSE IF error.message[1] \in {MsgBilling, MsgRateLimit} THEN "QuotaError"
  ELSE IF error.message[1] = MsgBadRequest THEN "ValidationError"
  ELSE IF error.message[1] = MsgServer THEN "ServerError"
  ELSE "Error"

\* the kind the claim gives a non-2xx response (the billing code wherever it
\* comes, then the status)
KindOf(r) ==
  IF r.code = "billing_hard_limit_reached" THEN "QuotaError"
  ELSE IF r.status = 401 THEN "AuthError"
  ELSE IF r.status = 403 THEN "PermissionError"
  ELSE IF r.status = 429 THEN "QuotaError"
  ELSE IF r.status = 400 THEN "ValidationError"
  ELSE IF r.status >= 500 THEN "ServerError"
  ELSE "Error"

\* C23: for every non-2xx response to the creation request the error thrown
\* is of the kind the response determines (401 AuthError, 403
\* PermissionError with the organization sub-case, billing code or 429
\* QuotaError, 400 ValidationError, 5xx ServerError) and carries the
\* response's status code.
C23_ErrorKindByResponse ==
  (call.fn = "generateVideo" /\ ~ResponseOk(call.response.status)
     /\ call.response.net)
    => /\ call.thrown # <<>>
       /\ Kind(call.thrown[1]) = KindOf(call.response)
       /\ call.thrown[1].status = call.response.status
       /\ (call.response.status = 403 /\ call.response.message = OrgMessage
             /\ call.response.code # "billing_hard_limit_reached")
            => call.thrown[1].message = <<MsgOrgVerify>>

\* C25: the canvas has exactly the target width and height, the drawn image
\* is centered on it, and black bars show where the aspect ratio of the
\* source differs from the target's.
C25_ExactSizeCenteredLetterboxed ==
  call.fn = "resizeImage"
    => LET d == call.drawn
           target == Dimensions(call.targetSize)
       IN /\ d.canvasWidth = target[1]
          /\ d.canvasHeight = target[2]
          /\ 2 * d.x + d.scaledWidth = target[1] * d.unit
          /\ 2 * d.y + d.scaledHeight = target[2] * d.unit
          /\ (call.source[1] * target[2] # call.source[2] * target[1])
               => (d.fillStyle = "#000000" /\ (d.x > 0 \/ d.y > 0))

\* C30: the creation request is multipart exactly when a reference image is
\* given.
C30_MultipartIffImage ==
  call.fn = "createRequest"
    => (call.request.contentType = "multipart/form-data"
          <=> call.referenceImage # NoImage)

\* C29: updateOptions called with the opt-out of clearing keeps the held
\* reference image and notifies nothing even when the size changed, and so
\* does updateOptions with the size the controller has already.
C29_OptOutOrSameSizeKeepsImage ==
  (call.fn = "updateOptions"
     /\ (~call.shouldClearImage \/ call.options.size = call.prev.options.size))
    => /\ call.result.video.referenceImage = call.prev.referenceImage
       /\ call.result.video.options = call.options
       /\ call.result.toasts = <<>>

\* C29 witness: an image was held, the size changed and the opt-out was given
C29_Witness ==
  /\ call.fn = "updateOptions"
  /\ ~call.shouldClearImage
  /\ call.options.size # call.prev.options.size
  /\ call.prev.referenceImage # NoImage
  /\ call.result.video.referenceImage = call.prev.referenceImage

\* C21: a status response that is not 2xx, or whose body does not parse, is
\* never taken for a report of a generation still running: getVideoStatus
\* throws, the loop of the generation ends and no next tick is scheduled.
C21_BadStatusResponseIsAnError ==
  [][\A g \in Gens, r \in RunStatusResponses :
       (r.net /\ (~ResponseOk(r.status) \/ ~r.json) /\ statusSettles(g, r))
         => /\ getVideoStatusResult(r) # <<>>
            /\ phase'[g] = "done"
            /\ \A h \in Gens : phase'[h] # "timer"
            /\ pollingTimeoutRef' = Null
            /\ video'.status = "failed"
            /\ transport'.reports = transport.reports]_vars

\* C21 witness: a second status request was answered 503 with a body that
\* reads like a report (or in another way that makes the call throw its
\* default text), and the generation has ended as failed
C21_Witness ==
  /\ phase[1] = "done"
  /\ video.status = "failed"
  /\ transport.statusCalls = 2
  /\ "status" \in transport.failed
  /\ toasts = <<Error(<<MsgStatusPrefix, MsgStatusDefault>>)>>
  /\ pollingTimeoutRef = Null

\* the completed reports among the reports getVideoStatus has returned
CompletedReports ==
  Cardinality({i \in DOMAIN transport.reports :
                 transport.reports[i].status = "completed"})

\* C22: no failed remote operation is retried: a submit makes at most one
\* creation request, a tick one status request, a completed report at most
\* one content request, and once a request of a kind has failed no request
\* of that kind is made again for the generation.
C22_NoRetry ==
  [][/\ transport'.createCalls <= submits'
     /\ transport'.statusCalls <= transport.statusCalls + 1
     /\ transport'.contentCalls <= CompletedReports'
     /\ "create" \in transport.failed
          => transport'.createCalls = transport.createCalls
     /\ "status" \in transport.failed
          => transport'.statusCalls = transport.statusCalls
     /\ "content" \in transport.failed
          => transport'.contentCalls = transport.contentCalls
     /\ transport.failed # {}
          => (phase[1] = "done" /\ phase'[1] = "done")]_vars

\* C22 witness: the second status request of the generation has failed and
\* the generation has ended with the two requests made
C22_Witness ==
  /\ transport.failed = {"status"}
  /\ transport.createCalls = 1
  /\ transport.statusCalls = 2
  /\ phase[1] = "done"

\* C28: a report of queued or in_progress for the current generation sets
\* status and progress to what was reported (progress 0 when none was),
\* leaves id, videoUrl, prompt, options and referenceImage alone and
\* schedules one next tick, that of the generation.
C28_NonTerminalReportFrame ==
  [][\A g \in Gens, r \in StatusResponses :
       (/\ g = submits /\ video.id = g
        /\ r.body # <<>> /\ r.body[1].status \in {"queued", "in_progress"}
        /\ statusSettles(g, r))
         => /\ video' = [video EXCEPT
                           !.status = r.body[1].status,
                           !.progress = IF r.body[1].progress = <<>> THEN 0
                                        ELSE r.body[1].progress[1]]
            /\ phase' = [phase EXCEPT ![g] = "timer"]
            /\ pollingTimeoutRef' = g
            /\ toasts' = <<>>]_vars

\* C28 witness: in_progress with progress 40 was reported for the current
\* generation and its next tick is pending
C28_Witness ==
  /\ submits > 0
  /\ video.id = submits
  /\ video.status = "in_progress"
  /\ video.progress = 40
  /\ phase[submits] = "timer"
  /\ pollingTimeoutRef = submits

\* C27: unmounting the hook cancels the pending poll timer and releases the
\* held object URL, and after it no poll timer is pending and no object URL
\* is alive, whatever request was in flight when it was unmounted.
C27_NothingLeftAfterUnmount ==
  ~mounted => /\ \A g \in Gens : phase[g] # "timer"
              /\ pollingTimeoutRef = Null
              /\ blobUrls = {}

\* what the claim calls a file to reject
TooLarge(file) == file.size > MaxFileSize
UnsupportedType(file) ==
  file.type \notin {<<"image", "png">>, <<"image", "jpeg">>,
                    <<"image", "webp">>, <<"image", "gif">>}

\* C24: a file larger than 10 MiB and a file whose type is not png, jpeg,
\* webp or gif are turned down, each with its own reason; such a file is
\* never encoded and never delivered, and the held image stays as it is.
C24_RejectedFileLeavesNoTrace ==
  [][\A file \in Files :
       ((TooLarge(file) \/ UnsupportedType(file)) /\ handleFileSelect(file))
         => /\ page' = page
            /\ video' = video
            /\ toasts' \in {<<Error(<<MsgTooLarge>>)>>, <<Error(<<MsgUnsupported>>)>>,
                            <<Error(<<MsgAtMost10MB>>)>>, <<Error(<<MsgNotImage>>)>>}
            /\ TooLarge(file)
                 <=> toasts' \in {<<Error(<<MsgTooLarge>>)>>,
                                  <<Error(<<MsgAtMost10MB>>)>>}]_vars

\* C26: no creation request carries a reference image encoded for a size
\* other than the size of the request: after a change of size the held
\* image is encoded again or cleared before it can be sent.
C26_NoStaleImageSent ==
  \A i \in DOMAIN page.sent :
     page.sent[i].imageFor \in {"none", page.sent[i].size}

\* C31: the page's generate command turns down a prompt that is empty
\* after trimming or longer than 500 characters before the hook is called:
\* nothing is requested and the state stays as it is, so every creation
\* request carries a non-empty prompt of at most 500 characters.
C31_PromptCheckedByPage ==
  [][/\ \A prompt \in PagePrompts :
          ((Trim(prompt) = <<>> \/ Len(prompt) > 500) /\ handleGenerate(prompt))
            => /\ UNCHANGED <<video, hookRest, page>>
               /\ toasts' \in {<<Error(<<MsgSetKey>>)>>,
                               <<Error(<<MsgEnterPrompt>>)>>,
                               <<Error(<<MsgPromptTooLong>>)>>}
     /\ \A g \in Gens :
          (phase[g] = "unused" /\ phase'[g] = "create")
            => /\ Trim(video'.prompt) # <<>>
               /\ Len(video'.prompt) <= 500]_vars

\* C31 witness: a prompt of 501 characters has just been turned down after
\* a request with a prompt of 500 characters had been sent
C31_Witness ==
  /\ toasts = <<Error(<<MsgPromptTooLong>>)>>
  /\ submits = 1
  /\ Len(video.prompt) = 500

\* C34: through the page a submit or a reset can be made only when no
\* polling is outstanding: while a poll timer is pending or a status
\* request is in flight the generate button is disabled, whatever status
\* the remote system reports.
C34_ButtonDisabledWhilePolling ==
  (\E g \in Gens : phase[g] \in {"status", "timer"}) => isGenerating

\* C32: a source image with fewer than a quarter of the target's pixels
\* gets the low-resolution notification, and the encoding goes on all the
\* same: with a canvas context and an encoder that work, the promise
\* resolves with the encoded image.
C32_LowResolutionAdvisoryOnly ==
  (/\ call.fn = "resizeImage"
   /\ 4 * call.source[1] * call.source[2]
        < Dimensions(call.targetSize)[1] * Dimensions(call.targetSize)[2])
    => /\ call.promise.toasts[1] = Error(<<MsgLowResolution>>)
       /\ (call.ctx # "none" /\ call.encoded # "throws")
            => /\ call.promise.settled = "resolved"
               /\ call.promise.value = <<"data:image/png;base64">>

\* C32 witness: an image of 100x100 has been encoded for 1280x720
C32_Witness ==
  /\ call.fn = "resizeImage"
  /\ call.source = <<100, 100>>
  /\ call.targetSize = "1280x720"
  /\ call.promise.settled = "resolved"
  /\ call.promise.toasts[1] = Error(<<MsgLowResolution>>)

\* C33: a status request of a superseded generation that ends in an error
\* never cancels the pending poll timer of the current generation, which
\* goes on polling.
C33_StaleErrorKeepsCurrentTimer ==
  [][\A g \in Gens, r \in StatusResponses :
       (/\ g < submits
        /\ phase[submits] = "timer"
        /\ getVideoStatusResult(r) # <<>>
        /\ statusSettles(g, r))
         => phase'[submits] = "timer"]_vars

\* C35: whenever the state's videoUrl is not null it is an object URL that
\* has been created and not revoked.
C35_VideoUrlAlive ==
  (mounted /\ video.videoUrl # Null) => video.videoUrl \in blobUrls

\* C35 witness: the video of the first generation has arrived after the
\* second submit and is the one the state holds
C35_Witness ==
  /\ submits = 2
  /\ video.videoUrl = 1
  /\ currentVideoUrlRef = 1

C37_OptionsAndImageOnly ==
  [][/\ ((\E options \in OptionValues : updateOptions(options))
           \/ (\E imageData \in HeldImages : setReferenceImage(imageData)))
          => /\ video'.status = video.status
             /\ video'.id = video.id
             /\ video'.progress = video.progress
             /\ video'.videoUrl = video.videoUrl
             /\ UNCHANGED <<phase, pollingTimeoutRef, currentVideoUrlRef,
                            blobUrls, submits>>
     /\ \A imageData \in HeldImages :
          setReferenceImage(imageData)
            => /\ video' = [video EXCEPT !.referenceImage = imageData]
               /\ UNCHANGED <<apiKey, phase, pollingTimeoutRef,
                              currentVideoUrlRef, blobUrls, submits,
                              dlFetching, dlTemp>>]_vars

\* C37 witness: a generation is between two polls, at 40%, with options
\* other than the default ones and a reference image in the state
C37_Witness ==
  /\ submits = 1
  /\ phase[1] = "timer"
  /\ video.status = "in_progress"
  /\ video.progress > 0
  /\ video.options # DefaultOptions
  /\ video.referenceImage = GoodImage

\* C38: a submit with a held reference image whose base64 part is missing,
\* empty or blank, or has a character outside the base64 alphabet, sends no
\* creation request and ends with status failed and the image conversion
\* error notified.
C38_MalformedImageFailsUnsent ==
  [][\A prompt \in Prompts :
       (/\ Truthy(apiKey)
        /\ video.referenceImage \in MalformedImages
        /\ generateVideo(prompt, video.options, video.referenceImage))
         => /\ phase'[submits'] = "done"
            /\ \A g \in Gens : phase'[g] = "create" => phase[g] = "create"
            /\ video'.status = "failed"
            /\ Len(toasts') = 1
            /\ toasts'[1].level = "error"
            /\ Head(toasts'[1].text) = MsgImagePrefix]_vars

\* C38 witness: the second submit, with an image that has a character
\* outside the alphabet, has just failed on the conversion
C38_Witness ==
  /\ submits = 2
  /\ phase[2] = "done"
  /\ video.status = "failed"
  /\ video.referenceImage = BadCharImage
  /\ toasts = <<Error(<<MsgImagePrefix, MsgBadBase64>>)>>

\* a scaled length that is not below its target, and one that is exactly it
Covers(length) == length.cmp = "above" \/ (length.cmp = "near" /\ length.ulps >= 0)
Exact(length) == length.cmp = "near" /\ length.ulps = 0

\* C39: for every source and target size the scaled image covers the
\* canvas: scaledWidth >= targetWidth and scaledHeight >= targetHeight (so
\* x <= 0 and y <= 0), with equality on one axis at least.
C39_CoverFitCovers ==
  call.fn = "coverFit"
    => /\ Covers(call.fit.scaledWidth)
       /\ Covers(call.fit.scaledHeight)
       /\ Exact(call.fit.scaledWidth) \/ Exact(call.fit.scaledHeight)

\* C39 as amended: on the axis that gives the scale the scaled length is
\* the target length or one of the two doubles next to it, and on the
\* other axis it is above the target or, with equal aspect ratios, within
\* one double of it as well; so x and y are never above half the distance
\* between two doubles at the target length.
C39_CoverFitWithinOneUlp ==
  call.fn = "coverFit"
    => LET fit == call.fit
           main == IF fit.byWidth THEN fit.scaledWidth ELSE fit.scaledHeight
           other == IF fit.byWidth THEN fit.scaledHeight ELSE fit.scaledWidth
       IN /\ main.cmp = "near" /\ main.ulps \in {-1, 0, 1}
          /\ other.cmp = "above"
               \/ (other.cmp = "near" /\ other.ulps \in {-1, 0, 1})

\* C39 witness: an image of 70x39 was fitted to 1280x720 and its scaled
\* height is the double just below 720
C39_Witness ==
  /\ call.fn = "coverFit"
  /\ call.source = <<70, 39>>
  /\ call.targetSize = "1280x720"
  /\ call.fit.scaledWidth.cmp = "above"
  /\ call.fit.scaledHeight = [cmp |-> "near", ulps |-> -1]

====
